---- MODULE Spec2Model ----
(***************************************************************************)
(* Wire codec of ipv8/attestation/wallet/primitives/structs.py.            *)
(*                                                                         *)
(* Byte strings (Python 2 str) are sequences of naturals in 0..255.        *)
(* Python integers are arbitrary precision; they are modelled by their     *)
(* binary expansion: a sequence of bits, most significant first, without   *)
(* leading zeros, zero being the empty sequence.  Lengths, indices and     *)
(* byte values are ordinary naturals.                                      *)
(***************************************************************************)
EXTENDS Integers, Sequences, FiniteSets, TLC

Min(a, b) == IF a < b THEN a ELSE b

(***************************************************************************)
(* Arbitrary-precision integers.                                           *)
(***************************************************************************)
\* drop leading zero bits
Norm(bits) ==
    IF \A i \in 1..Len(bits) : bits[i] = 0 THEN <<>>
    ELSE LET first == CHOOSE i \in 1..Len(bits) :
                         /\ bits[i] = 1
                         /\ \A j \in 1..(i - 1) : bits[j] = 0
         IN  SubSeq(bits, first, Len(bits))

RECURSIVE IntToBits(_)
\* the Python int of a small natural (a len(), a byte, a literal)
IntToBits(n) ==
    IF n = 0 THEN <<>> ELSE Append(IntToBits(n \div 2), n % 2)

\* bit i of x counted from the least significant one (0-based)
BitAt(bits, i) ==
    IF i < Len(bits) THEN bits[Len(bits) - i] ELSE 0

\* x >= y on canonical expansions
Geq(x, y) ==
    \/ Len(x) > Len(y)
    \/ /\ Len(x) = Len(y)
       /\ \/ x = y
          \/ \E i \in 1..Len(x) :
                /\ x[i] > y[i]
                /\ \A j \in 1..(i - 1) : x[j] = y[j]

RECURSIVE BitsToIntLoop(_, _, _)
BitsToIntLoop(bits, i, acc) ==
    IF i > Len(bits) THEN acc ELSE BitsToIntLoop(bits, i + 1, 2 * acc + bits[i])

\* the natural a short expansion stands for
BitsToInt(bits) == BitsToIntLoop(bits, 1, 0)

\* x % m for m > 0; an x below m is its own remainder, whatever its length
PyMod(x, m) ==
    IF Geq(x, m) THEN IntToBits(BitsToInt(x) % BitsToInt(m)) ELSE x

(***************************************************************************)
(* Integer codec.                                                          *)
(***************************************************************************)
HexBase == 16

ByteBits == 8

ByteMax == 255

\* hex(num)[2:] with a trailing 'L' removed: the hex digits of num
Hex(num) ==
    LET n == Len(num)
        pad == (4 - (n % 4)) % 4
        padded == [i \in 1..pad |-> 0] \o num
    IN  IF n = 0 THEN <<0>>
        ELSE [j \in 1..(Len(padded) \div 4) |->
                8 * padded[4 * j - 3] + 4 * padded[4 * j - 2]
                  + 2 * padded[4 * j - 1] + padded[4 * j]]

\* the loop appends one byte int(h[b] + h[b+1], 16) for b = 0, 2, 4, ...:
\* byte number k of the output comes from the hex digits 2k-1 and 2k
_num_to_str(num) ==
    LET h0 == Hex(num)
        h == IF (Len(h0) % 2) = 1 THEN <<0>> \o h0 ELSE h0
    IN  [k \in 1..(Len(h) \div 2) |-> HexBase * h[2 * k - 1] + h[2 * k]]

\* the loop shifts out left by 8 and ors the next byte in: after it, out is
\* the concatenation of the bytes' 8-bit expansions, as an integer
_str_to_num(s) ==
    Norm([k \in 1..(ByteBits * Len(s)) |->
            BitAt(IntToBits(s[((k - 1) \div ByteBits) + 1]),
                  (ByteBits - 1) - ((k - 1) % ByteBits))])

\* Python's s[lo:hi] for 0 <= lo, 0 <= hi: never raises, clips to the string
PySlice(s, lo, hi) == SubSeq(s, lo + 1, Min(hi, Len(s)))

_pack(num) ==
    LET pnum == _num_to_str(num)
        l == Len(pnum)
    IN  _num_to_str(IntToBits(l)) \o pnum

\* _unpack reading s[1:l] for s[1:l+1]
_unpack_short(s) ==
    IF s = <<>> THEN [exc |-> "IndexError"]
    ELSE LET l == s[1]
         IN  [exc |-> "none",
              num |-> _str_to_num(PySlice(s, 1, l)),
              rest |-> PySlice(s, l + 1, Len(s))]

\* _unpack returning s[l:] for s[l+1:]
_unpack_stuck(s) ==
    IF s = <<>> THEN [exc |-> "IndexError"]
    ELSE LET l == s[1]
         IN  [exc |-> "none",
              num |-> _str_to_num(PySlice(s, 1, l + 1)),
              rest |-> PySlice(s, l, Len(s))]

\* s[0] of an empty str raises IndexError
_unpack(s) ==
    IF s = <<>> THEN [exc |-> "IndexError"]
    ELSE LET l == s[1]
         IN  [exc |-> "none",
              num |-> _str_to_num(PySlice(s, 1, l + 1)),
              rest |-> PySlice(s, l + 1, Len(s))]

pack_pair(a, b) == _pack(a) \o _pack(b)

unpack_pair(s) ==
    LET u1 == _unpack(s)
    IN  IF u1.exc # "none" THEN [exc |-> u1.exc]
        ELSE LET u2 == _unpack(u1.rest)
             IN  IF u2.exc # "none" THEN [exc |-> u2.exc]
                 ELSE [exc |-> "none", a |-> u1.num, b |-> u2.num, rest |-> u2.rest]

(***************************************************************************)
(* Structs.  An exception leaves a call as [exc |-> its name]; a normal    *)
(* return is [exc |-> "none", val |-> the value].                          *)
(***************************************************************************)
NumFields == 6

Raise(e) == [exc |-> e]

Return(v) == [exc |-> "none", val |-> v]

\* cryptosystem/value.py: the components are kept reduced modulo mod
FP2Value(mod, a, b) == [mod |-> mod, a |-> PyMod(a, mod), b |-> PyMod(b, mod)]

\* a % 0 raises ZeroDivisionError
FP2Raises(mod) == mod = <<>>

BonehPublicKey(n, p, g, h) ==
    [cls |-> "BonehPublicKey", n |-> n, p |-> p, g |-> g, h |-> h]

BonehPrivateKey(n, p, g, h, t1) ==
    [cls |-> "BonehPrivateKey", n |-> n, p |-> p, g |-> g, h |-> h, t1 |-> t1]

\* serialize writing h.b before h.a
BonehPublicKey_serialize_swapped(self) ==
    _pack(self.n) \o _pack(self.p) \o _pack(self.g.a) \o _pack(self.g.b)
        \o _pack(self.h.b) \o _pack(self.h.a)

BonehPublicKey_serialize(self) ==
    _pack(self.n) \o _pack(self.p) \o _pack(self.g.a) \o _pack(self.g.b)
        \o _pack(self.h.a) \o _pack(self.h.b)

BonehPrivateKey_serialize(self) ==
    BonehPublicKey_serialize(self) \o _pack(self.t1)

\* self.serialize() on a key: the method of the object's class
Key_serialize(self) ==
    IF self.cls = "BonehPrivateKey" THEN BonehPrivateKey_serialize(self)
    ELSE BonehPublicKey_serialize(self)

public_key(self) == BonehPublicKey(self.n, self.p, self.g, self.h)

\* cls(*inits): each class takes a fixed number of arguments
Construct(cls, inits) ==
    IF cls = "BonehPublicKey"
    THEN IF Len(inits) = 4
         THEN Return(BonehPublicKey(inits[1], inits[2], inits[3], inits[4]))
         ELSE Raise("TypeError")
    ELSE IF Len(inits) = 5
         THEN Return(BonehPrivateKey(inits[1], inits[2], inits[3], inits[4], inits[5]))
         ELSE Raise("TypeError")

\* unserialize taking 0 for every integer the input did not hold
KeyBuild_defaults(cls, nums, force_public) ==
    LET padded == nums \o [i \in 1..(NumFields - Len(nums)) |-> <<>>]
    IN  IF FP2Raises(padded[2]) THEN Raise("ZeroDivisionError")
        ELSE Construct("BonehPublicKey",
                       << padded[1],
                          padded[2],
                          FP2Value(padded[2], padded[3], padded[4]),
                          FP2Value(padded[2], padded[5], padded[6]) >>)

\* BonehPublicKey.unserialize after its loop: nums[k] of the code is nums[k+1]
KeyBuild(cls, nums, force_public) ==
    IF Len(nums) < 4 THEN Raise("IndexError")
    ELSE IF FP2Raises(nums[2]) THEN Raise("ZeroDivisionError")
    ELSE IF Len(nums) < 6 THEN Raise("IndexError")
    ELSE LET inits == << nums[1],
                         nums[2],
                         FP2Value(nums[2], nums[3], nums[4]),
                         FP2Value(nums[2], nums[5], nums[6]) >>
         IN  IF ~force_public /\ Len(nums) > 5
             THEN IF Len(nums) < 7 THEN Raise("IndexError")
                  ELSE Construct(cls, Append(inits, nums[7]))
             ELSE Construct(cls, inits)

BitPairAttestation(a, b, complement) ==
    [a |-> a, b |-> b, complement |-> complement]

BitPairAttestation_serialize(self) ==
    _pack(self.a.a) \o _pack(self.a.b) \o _pack(self.b.a) \o _pack(self.b.b)
        \o _pack(self.complement.a) \o _pack(self.complement.b)

\* BitPairAttestation.unserialize after its loop
BitPairBuild(p, nums) ==
    IF Len(nums) < 2 THEN Raise("IndexError")
    ELSE IF FP2Raises(p) THEN Raise("ZeroDivisionError")
    ELSE IF Len(nums) < 6 THEN Raise("IndexError")
    ELSE Return(BitPairAttestation(FP2Value(p, nums[1], nums[2]),
                                   FP2Value(p, nums[3], nums[4]),
                                   FP2Value(p, nums[5], nums[6])))

Attestation(PK, bitpairs) == [PK |-> PK, bitpairs |-> bitpairs]

RECURSIVE SerializeBitpairs(_, _, _)
\* for bitpair in self.bitpairs: out += bitpair.serialize()
SerializeBitpairs(bitpairs, i, out) ==
    IF i > Len(bitpairs) THEN out
    ELSE SerializeBitpairs(bitpairs, i + 1,
                           out \o BitPairAttestation_serialize(bitpairs[i]))

Attestation_serialize(self) ==
    SerializeBitpairs(self.bitpairs, 1, Key_serialize(self.PK))

(***************************************************************************)
(* Inputs.                                                                 *)
(***************************************************************************)
MaxBitPairs == 2

MaxRawLen == 5

N(k) == IntToBits(k)

\* the largest integer whose encoding has 255 bytes, the smallest with 256
Big255 == [i \in 1..(ByteBits * ByteMax) |-> 1]

Big256 == <<1>> \o [i \in 1..(ByteBits * ByteMax) |-> 0]

\* a modulus above every 256-byte integer
BigMod == <<1>> \o [i \in 1..(ByteBits * (ByteMax + 2)) |-> 0]

IntInputs == {N(0), N(1), N(15), N(255), N(256), N(4095), Big255, Big256}

PairInputs == {<<N(0), N(0)>>, <<N(1), N(256)>>, <<N(255), N(15)>>, <<N(4095), N(0)>>}

Tails == {<<0>>, <<1, 7>>, <<2, 1, 0, 9>>}

P7 == N(7)

P257 == N(257)

Key7 == BonehPublicKey(N(15), P7, FP2Value(P7, N(1), N(2)), FP2Value(P7, N(3), N(4)))

Key257 ==
    BonehPublicKey(N(256), P257, FP2Value(P257, N(256), N(0)),
                   FP2Value(P257, N(1), N(255)))

\* 254 bytes that read as one frame: a length byte 253 and 253 zero bytes
FrameQ == <<253>> \o [i \in 1..253 |-> 0]

\* two keys with a 256-byte component each
KeyBigA ==
    BonehPublicKey(N(15), P7, FP2Value(P7, N(1), N(2)),
                   FP2Value(BigMod, _str_to_num(<<1, 0>> \o FrameQ), N(0)))

KeyBigB ==
    BonehPublicKey(N(15), P7, FP2Value(P7, N(1), N(2)),
                   FP2Value(BigMod, N(0), _str_to_num(FrameQ \o <<1, 0>>)))

\* a key whose n has 256 bytes
KeyBigN ==
    BonehPublicKey(_str_to_num(<<1, 7, 0, 0, 0, 0, 249>> \o [i \in 1..249 |-> 255]),
                   P7, FP2Value(P7, N(1), N(2)), FP2Value(P7, N(3), N(4)))

PublicKeys == {Key7, Key257, KeyBigA, KeyBigB}

PrivateKeys ==
    {BonehPrivateKey(k.n, k.p, k.g, k.h, t1) : k \in {Key7}, t1 \in {N(5), N(256)}}
        \cup {BonehPrivateKey(Key257.n, Key257.p, Key257.g, Key257.h, N(0))}

BitPairsOver(p) ==
    IF p = P7
    THEN {BitPairAttestation(FP2Value(p, N(1), N(1)), FP2Value(p, N(2), N(2)),
                             FP2Value(p, N(3), N(3))),
          BitPairAttestation(FP2Value(p, N(4), N(4)), FP2Value(p, N(5), N(5)),
                             FP2Value(p, N(6), N(6)))}
    ELSE {BitPairAttestation(FP2Value(p, N(256), N(0)), FP2Value(p, N(1), N(255)),
                             FP2Value(p, N(0), N(256)))}

SeqsUpTo(S, n) == UNION {[1..k -> S] : k \in 0..n}

Attestations ==
    {Attestation(k, bps) : k \in {Key7}, bps \in SeqsUpTo(BitPairsOver(P7), MaxBitPairs)}
        \cup {Attestation(k, bps) :
                k \in {Key257}, bps \in SeqsUpTo(BitPairsOver(P257), MaxBitPairs)}
        \cup {Attestation(KeyBigN, <<>>)}

RawBytes == {0, 1, 2}

RawStrings == SeqsUpTo(RawBytes, MaxRawLen)

\* the inputs whose integers are all short
SmallInputs ==
    {[type |-> "int", n |-> n] : n \in IntInputs \ {Big255, Big256}}
        \cup {[type |-> "pair", a |-> ab[1], b |-> ab[2]] : ab \in PairInputs}
        \cup {[type |-> "key", key |-> k] : k \in {Key7, Key257} \cup PrivateKeys}
        \cup {[type |-> "bitpair", p |-> p, bp |-> bp] :
                p \in {P7, P257}, bp \in BitPairsOver(P7) \cup BitPairsOver(P257)}
        \cup {[type |-> "att", att |-> a] : a \in Attestations \ {Attestation(KeyBigN, <<>>)}}

\* the inputs with an integer of 255 or 256 bytes
BigInputs ==
    {[type |-> "int", n |-> n] : n \in {Big255, Big256}}
        \cup {[type |-> "key", key |-> k] : k \in {KeyBigA, KeyBigB}}
        \cup {[type |-> "att", att |-> Attestation(KeyBigN, <<>>)]}

Inputs == SmallInputs \cup BigInputs

\* what the sender's call returns for an input
Serialize(in) ==
    CASE in.type = "int" -> _pack(in.n)
      [] in.type = "pair" -> pack_pair(in.a, in.b)
      [] in.type = "key" -> Key_serialize(in.key)
      [] in.type = "bitpair" -> BitPairAttestation_serialize(in.bp)
      [] in.type = "att" -> Attestation_serialize(in.att)

(***************************************************************************)
(* State.                                                                  *)
(***************************************************************************)
VARIABLES
    input,      \* the value serialized, or [type |-> "raw"] for bytes off the wire
    buf,        \* the byte string handed to the decoder
    tail,       \* bytes appended to the serialization
    cut,        \* the offset the serialization was truncated at, -1 for none
    pc,         \* "init", "wire", "key_loop", "bp_loop", "att_loop", "done"
    call,       \* the decoder called at the top level and its arguments
    rem,        \* rem of the running BonehPublicKey / BitPairAttestation.unserialize
    nums,       \* nums of that call
    att,        \* PK, bitpairs and rem of the running Attestation.unserialize
    result      \* what the top-level call returned or raised

vars == <<input, buf, tail, cut, pc, call, rem, nums, att, result>>

NoCall == [fn |-> "none"]

NoAtt == [PK |-> <<>>, bitpairs |-> <<>>, rem |-> <<>>]

Pending == [exc |-> "pending"]

InitFrom(inputs) ==
    /\ \/ /\ input \in inputs
          /\ buf = <<>>
          /\ pc = "init"
       \/ /\ input = [type |-> "raw"]
          /\ buf \in RawStrings
          /\ pc = "wire"
    /\ tail = <<>>
    /\ cut = -1
    /\ call = NoCall
    /\ rem = <<>>
    /\ nums = <<>>
    /\ att = NoAtt
    /\ result = Pending

Init == InitFrom(Inputs)

(***************************************************************************)
(* The sender and the wire.                                                *)
(***************************************************************************)
DoSerialize ==
    /\ pc = "init"
    /\ buf' = Serialize(input)
    /\ pc' = "wire"
    /\ UNCHANGED <<input, tail, cut, call, rem, nums, att, result>>

\* the caller concatenates further bytes after a framed integer or pair
AppendTail(t) ==
    /\ pc = "wire"
    /\ input.type \in {"int", "pair"}
    /\ tail = <<>>
    /\ cut = -1
    /\ buf' = buf \o t
    /\ tail' = t
    /\ UNCHANGED <<input, cut, pc, call, rem, nums, att, result>>

\* the receiver gets only the first i bytes
Truncate(i) ==
    /\ pc = "wire"
    /\ input.type # "raw"
    /\ tail = <<>>
    /\ cut = -1
    /\ i < Len(buf)
    /\ buf' = SubSeq(buf, 1, i)
    /\ cut' = i
    /\ UNCHANGED <<input, tail, pc, call, rem, nums, att, result>>

(***************************************************************************)
(* The decoders.                                                           *)
(***************************************************************************)
CallUnpack ==
    /\ pc = "wire"
    /\ input.type \in {"int", "raw"}
    /\ call' = [fn |-> "_unpack"]
    /\ result' = LET u == _unpack(buf)
                 IN  IF u.exc # "none" THEN Raise(u.exc)
                     ELSE Return([num |-> u.num, rest |-> u.rest])
    /\ pc' = "done"
    /\ UNCHANGED <<input, buf, tail, cut, rem, nums, att>>

CallUnpackPair ==
    /\ pc = "wire"
    /\ input.type \in {"pair", "raw"}
    /\ call' = [fn |-> "unpack_pair"]
    /\ result' = LET u == unpack_pair(buf)
                 IN  IF u.exc # "none" THEN Raise(u.exc)
                     ELSE Return([a |-> u.a, b |-> u.b, rest |-> u.rest])
    /\ pc' = "done"
    /\ UNCHANGED <<input, buf, tail, cut, rem, nums, att>>

\* cls.unserialize(s, force_public): rem = s; nums = []
CallKeyUnserialize(cls, force_public) ==
    /\ pc = "wire"
    /\ input.type \in {"key", "raw"}
    /\ call' = [fn |-> "BonehPublicKey.unserialize", cls |-> cls,
                force_public |-> force_public]
    /\ rem' = buf
    /\ nums' = <<>>
    /\ pc' = "key_loop"
    /\ UNCHANGED <<input, buf, tail, cut, att, result>>

\* Attestation.unserialize(s) starts with BonehPublicKey.unserialize(s, True)
CallAttUnserialize ==
    /\ pc = "wire"
    /\ input.type \in {"att", "raw"}
    /\ call' = [fn |-> "Attestation.unserialize", cls |-> "BonehPublicKey",
                force_public |-> TRUE]
    /\ rem' = buf
    /\ nums' = <<>>
    /\ pc' = "key_loop"
    /\ UNCHANGED <<input, buf, tail, cut, att, result>>

\* one iteration of  while rem: unpacked, rem = _unpack(rem); nums.append(unpacked)
KeyLoop ==
    /\ pc = "key_loop"
    /\ rem # <<>>
    /\ LET u == _unpack(rem)
       IN  IF u.exc # "none"
           THEN /\ result' = Raise(u.exc)
                /\ pc' = "done"
                /\ UNCHANGED <<rem, nums>>
           ELSE /\ rem' = u.rest
                /\ nums' = Append(nums, u.num)
                /\ UNCHANGED <<pc, result>>
    /\ UNCHANGED <<input, buf, tail, cut, call, att>>

\* the loop is over: build the key and return it, to the caller at the top
\* level or to Attestation.unserialize, which then sets
\* bitpairs = [] and rem = s[len(PK.serialize()):]
KeyReturn ==
    /\ pc = "key_loop"
    /\ rem = <<>>
    /\ LET r == KeyBuild(call.cls, nums, call.force_public)
       IN  IF call.fn = "Attestation.unserialize" /\ r.exc = "none"
           THEN /\ att' = [PK |-> r.val,
                           bitpairs |-> <<>>,
                           rem |-> PySlice(buf, Len(Key_serialize(r.val)), Len(buf))]
                /\ pc' = "att_loop"
                /\ UNCHANGED result
           ELSE /\ result' = r
                /\ pc' = "done"
                /\ UNCHANGED att
    /\ UNCHANGED <<input, buf, tail, cut, call, rem, nums>>

\* BitPairAttestation.unserialize(s, p): rem = s; nums = []
CallBitPairUnserialize(p) ==
    /\ pc = "wire"
    /\ \/ input.type = "bitpair" /\ p = input.p
       \/ input.type = "raw" /\ p = P7
    /\ call' = [fn |-> "BitPairAttestation.unserialize", p |-> p]
    /\ rem' = buf
    /\ nums' = <<>>
    /\ pc' = "bp_loop"
    /\ UNCHANGED <<input, buf, tail, cut, att, result>>

\* one iteration of Attestation.unserialize's  while rem:  up to the call
\* attest = BitPairAttestation.unserialize(rem, PK.p)
AttLoop ==
    /\ pc = "att_loop"
    /\ att.rem # <<>>
    /\ rem' = att.rem
    /\ nums' = <<>>
    /\ pc' = "bp_loop"
    /\ UNCHANGED <<input, buf, tail, cut, call, att, result>>

\* the modulus the running BitPairAttestation.unserialize was given
BitPairModulus ==
    IF call.fn = "Attestation.unserialize" THEN att.PK.p ELSE call.p

\* one iteration of  while rem and len(nums) < 6
BitPairLoop ==
    /\ pc = "bp_loop"
    /\ rem # <<>> /\ Len(nums) < NumFields
    /\ LET u == _unpack(rem)
       IN  IF u.exc # "none"
           THEN /\ result' = Raise(u.exc)
                /\ pc' = "done"
                /\ UNCHANGED <<rem, nums>>
           ELSE /\ rem' = u.rest
                /\ nums' = Append(nums, u.num)
                /\ UNCHANGED <<pc, result>>
    /\ UNCHANGED <<input, buf, tail, cut, call, att>>

\* the loop is over: build the bit-pair and return it, to the caller at the
\* top level or to Attestation.unserialize, which then does
\* bitpairs.append(attest) and rem = rem[len(attest.serialize()):]
BitPairReturn ==
    /\ pc = "bp_loop"
    /\ ~(rem # <<>> /\ Len(nums) < NumFields)
    /\ LET r == BitPairBuild(BitPairModulus, nums)
       IN  IF call.fn = "Attestation.unserialize" /\ r.exc = "none"
           THEN /\ att' = [PK |-> att.PK,
                           bitpairs |-> Append(att.bitpairs, r.val),
                           rem |-> PySlice(att.rem,
                                           Len(BitPairAttestation_serialize(r.val)),
                                           Len(att.rem))]
                /\ pc' = "att_loop"
                /\ UNCHANGED result
           ELSE /\ result' = r
                /\ pc' = "done"
                /\ UNCHANGED att
    /\ UNCHANGED <<input, buf, tail, cut, call, rem, nums>>

\* Attestation.unserialize's loop is over: return cls(PK, bitpairs)
AttReturn ==
    /\ pc = "att_loop"
    /\ att.rem = <<>>
    /\ result' = Return(Attestation(att.PK, att.bitpairs))
    /\ pc' = "done"
    /\ UNCHANGED <<input, buf, tail, cut, call, rem, nums, att>>

Next ==
    \/ DoSerialize
    \/ \E t \in Tails : AppendTail(t)
    \/ \E i \in 0..(Len(buf) - 1) : Truncate(i)
    \/ CallUnpack
    \/ CallUnpackPair
    \/ \E cls \in {"BonehPublicKey", "BonehPrivateKey"}, force_public \in BOOLEAN :
          CallKeyUnserialize(cls, force_public)
    \/ \E p \in {P7, P257} : CallBitPairUnserialize(p)
    \/ CallAttUnserialize
    \/ KeyLoop
    \/ KeyReturn
    \/ AttLoop
    \/ BitPairLoop
    \/ BitPairReturn
    \/ AttReturn

Spec == Init /\ [][Next]_vars

(***************************************************************************)
(* Vocabulary of the properties.                                           *)
(***************************************************************************)
\* the canonical encoding fits one length byte
Fits(num) == Len(_num_to_str(num)) <= ByteMax

KeyFields(k) ==
    <<k.n, k.p, k.g.a, k.g.b, k.h.a, k.h.b>>
        \o (IF k.cls = "BonehPrivateKey" THEN <<k.t1>> ELSE <<>>)

BitPairFields(bp) ==
    <<bp.a.a, bp.a.b, bp.b.a, bp.b.b, bp.complement.a, bp.complement.b>>

\* a key over a non-zero modulus p, g and h reduced modulo p, every field
\* fitting a frame
ValidKey(k) ==
    /\ k.p # <<>>
    /\ k.g.mod = k.p /\ k.h.mod = k.p
    /\ \A i \in 1..Len(KeyFields(k)) : Fits(KeyFields(k)[i])

ValidBitPair(bp, p) ==
    /\ p # <<>> /\ Fits(p)
    /\ bp.a.mod = p /\ bp.b.mod = p /\ bp.complement.mod = p

ValidAttestation(a) ==
    /\ ValidKey(a.PK)
    /\ \A i \in 1..Len(a.bitpairs) : ValidBitPair(a.bitpairs[i], a.PK.p)

\* the decoded key has the class and the fields of the original
SameKey(k1, k2) == k1.cls = k2.cls /\ KeyFields(k1) = KeyFields(k2)

SameBitPairs(s1, s2) ==
    /\ Len(s1) = Len(s2)
    /\ \A i \in 1..Len(s1) : BitPairFields(s1[i]) = BitPairFields(s2[i])

\* the untouched serialization was decoded by the call named fn
Decoded(type, fn) ==
    /\ pc = "done"
    /\ input.type = type
    /\ call.fn = fn
    /\ cut = -1

RECURSIVE Skip(_, _)
\* what is left of s after k framed integers were read from its front
Skip(s, k) ==
    IF k = 0 \/ s = <<>> THEN s ELSE Skip(_unpack(s).rest, k - 1)

(***************************************************************************)
(* Properties.                                                             *)
(***************************************************************************)
\* C1: unserializing the serialization of a valid Attestation returns an
\* Attestation with the same n, p, g, h and the same bit-pairs, as many as
\* the original has and in the original order (none for an empty list).
C1_AttestationRoundTrip ==
    (Decoded("att", "Attestation.unserialize") /\ ValidAttestation(input.att))
        => /\ result.exc = "none"
           /\ SameKey(result.val.PK, input.att.PK)
           /\ SameBitPairs(result.val.bitpairs, input.att.bitpairs)

\* an Attestation with two different bit-pairs came back from its bytes
C1_Witness ==
    /\ Decoded("att", "Attestation.unserialize")
    /\ ValidAttestation(input.att)
    /\ Len(input.att.bitpairs) = 2
    /\ input.att.bitpairs[1] # input.att.bitpairs[2]
    /\ result.exc = "none"
    /\ Len(result.val.bitpairs) = 2

\* C2: a valid PublicKey's bytes unserialize, with force_public false, to a
\* PublicKey with the same n, p, g, h, and a valid PrivateKey's bytes to a
\* PrivateKey with the same n, p, g, h, t1.
C2_KeyRoundTrip ==
    (/\ Decoded("key", "BonehPublicKey.unserialize")
     /\ ValidKey(input.key)
     /\ call.cls = input.key.cls
     /\ ~call.force_public)
        => /\ result.exc = "none"
           /\ SameKey(result.val, input.key)

\* C3: no proper prefix of a valid serialized key, bit-pair or attestation
\* unserializes to a value: the call on it raises.
C3_TruncationFails ==
    (/\ pc = "done"
     /\ cut # -1
     /\ \/ /\ input.type = "key"
           /\ ValidKey(input.key)
           /\ call.fn = "BonehPublicKey.unserialize"
           /\ call.cls = input.key.cls
           /\ ~call.force_public
        \/ /\ input.type = "bitpair"
           /\ ValidBitPair(input.bp, input.p)
           /\ call.fn = "BitPairAttestation.unserialize"
        \/ /\ input.type = "att"
           /\ ValidAttestation(input.att)
           /\ call.fn = "Attestation.unserialize")
        => result.exc # "none"

\* C4: _pack returns only for an integer whose encoding has at most 255
\* bytes, and what it returns is one length byte L followed by exactly L
\* bytes, the encoding of the integer.
C4_FrameCapacity ==
    (pc = "wire" /\ input.type = "int" /\ cut = -1 /\ tail = <<>>)
        => /\ Len(_num_to_str(input.n)) <= ByteMax
           /\ buf[1] = Len(buf) - 1
           /\ SubSeq(buf, 2, Len(buf)) = _num_to_str(input.n)

\* C5: _unpack raises on an input that holds fewer than L+1 bytes, L being
\* its first byte.
C5_UnframeTruncated ==
    (pc = "done" /\ call.fn = "_unpack" /\ buf # <<>> /\ Len(buf) < buf[1] + 1)
        => result.exc # "none"

\* C6: for an integer n whose encoding has at most 255 bytes and any bytes t,
\* _unpack(_pack(n) + t) returns (n, t), and unpack_pair(pack_pair(a, b) + t)
\* returns (a, b, t).
C6_FramingRoundTrip ==
    /\ (Decoded("int", "_unpack") /\ Fits(input.n))
          => result = Return([num |-> input.n, rest |-> tail])
    /\ (Decoded("pair", "unpack_pair") /\ Fits(input.a) /\ Fits(input.b))
          => result = Return([a |-> input.a, b |-> input.b, rest |-> tail])

\* the largest integer that fits came back, with the bytes that followed it
C6_Witness ==
    /\ Decoded("int", "_unpack")
    /\ input.n = Big255
    /\ tail # <<>>
    /\ result.exc = "none"
    /\ result.val.rest = tail

\* C7: a key or bit-pair decode that read fewer than 6 framed integers
\* raises; it returns no struct.
C7_TooFewFieldsFails ==
    (/\ pc = "done"
     /\ call.fn \in {"BonehPublicKey.unserialize", "BitPairAttestation.unserialize",
                     "Attestation.unserialize"}
     /\ Len(nums) < NumFields)
        => result.exc # "none"

\* a key decode read five integers and raised
C7_Witness ==
    /\ pc = "done"
    /\ call.fn = "BonehPublicKey.unserialize"
    /\ Len(nums) = 5
    /\ nums[2] # <<>>
    /\ result.exc = "IndexError"

\* C8: in Attestation.unserialize on the bytes of any Attestation, the
\* re-serialized key is as long as the first 6 framed integers of the input,
\* and whenever the bit-pair loop tests rem, rem is the concatenation of the
\* serializations of the bit-pairs not yet decoded.
C8_BoundaryAlignment ==
    (pc = "att_loop" /\ input.type = "att" /\ cut = -1)
        => /\ Len(Key_serialize(att.PK)) = Len(buf) - Len(Skip(buf, NumFields))
           /\ Len(att.bitpairs) <= Len(input.att.bitpairs)
           /\ att.rem = SerializeBitpairs(
                            SubSeq(input.att.bitpairs, Len(att.bitpairs) + 1,
                                   Len(input.att.bitpairs)), 1, <<>>)

\* the same alignment, for the Attestations whose fields all fit a frame
C8_AlignmentWhenFits ==
    (pc = "att_loop" /\ input.type = "att" /\ cut = -1 /\ ValidAttestation(input.att))
        => /\ Len(Key_serialize(att.PK)) = Len(buf) - Len(Skip(buf, NumFields))
           /\ Len(att.bitpairs) <= Len(input.att.bitpairs)
           /\ att.rem = SerializeBitpairs(
                            SubSeq(input.att.bitpairs, Len(att.bitpairs) + 1,
                                   Len(input.att.bitpairs)), 1, <<>>)

\* C9: every decode ends after finitely many loop iterations: each _unpack
\* of a key or bit-pair loop shortens rem by at least 1 byte, each bit-pair
\* iteration of Attestation.unserialize shortens its non-empty rem by at least
\* 12 bytes or empties it, so no loop makes more iterations than the input
\* has bytes, a call that ended has returned or raised, and no behaviour
\* takes steps for ever without the call ending.
C9_Terminates ==
    /\ [][(pc \in {"key_loop", "bp_loop"} /\ nums' # nums /\ nums' # <<>>)
            => Len(rem') <= Len(rem) - 1]_vars
    /\ [][(pc = "bp_loop" /\ pc' = "att_loop")
            => /\ att.rem # <<>>
               /\ \/ Len(att.rem') <= Len(att.rem) - 2 * NumFields
                  \/ att.rem' = <<>>]_vars
    /\ [](Len(nums) <= Len(buf) - Len(rem))
    /\ [](Len(att.bitpairs) <= Len(buf) - Len(att.rem))
    /\ [](pc = "done" => result.exc # "pending")
    /\ ([]<><<Next>>_vars) => <>(pc = "done")

\* Attestation.unserialize of a truncated input went through a bit-pair
\* iteration and then ended
C9_Witness ==
    /\ pc = "done"
    /\ call.fn = "Attestation.unserialize"
    /\ cut # -1
    /\ Len(att.bitpairs) >= 1
    /\ result.exc # "pending"

\* the integer fields of an input
FieldsOf(in) ==
    CASE in.type = "key" -> KeyFields(in.key)
      [] in.type = "bitpair" -> BitPairFields(in.bp)
      [] in.type = "att" ->
            <<KeyFields(in.att.PK)>>
                \o [i \in 1..Len(in.att.bitpairs) |-> BitPairFields(in.att.bitpairs[i])]

ClassOf(in) == IF in.type = "key" THEN in.key.cls ELSE in.type

\* C10: two keys of one class, two bit-pairs or two attestations that
\* serialize to the same bytes have the same integer fields and as many
\* bit-pairs.
C10_SerializeInjective ==
    (pc = "wire" /\ cut = -1 /\ tail = <<>> /\ input.type \in {"key", "bitpair", "att"})
        => \A other \in Inputs :
              (/\ other.type = input.type
               /\ ClassOf(other) = ClassOf(input)
               /\ Serialize(other) = buf)
                  => FieldsOf(other) = FieldsOf(input)
====
